---------------------------- MODULE Spec2Model ----------------------------
(***************************************************************************)
(* A model of simulate_worm.py: main() validates the command line and     *)
(* builds the network from a CSV edge list, then simulate() (infection     *)
(* only) or simulate_inoculation() (infection against inoculation) runs    *)
(* rounds until its loop condition fails.                                  *)
(*                                                                         *)
(* A string is a sequence of one-character strings, so that str.lower()    *)
(* and set(<str>) do what they do in Python.  Probabilities and the values *)
(* of random() are counted in tenths: 10 is 1.0, random() is below 10.     *)
(***************************************************************************)
EXTENDS Integers, Sequences, FiniteSets, TLC

VARIABLES options, infile, graph, patient_zero, inoculator,
          infected, inoculated, round_count, pc, error, report

vars == <<options, infile, graph, patient_zero, inoculator,
          infected, inoculated, round_count, pc, error, report>>

(* Stagnant rounds (rounds that change neither set) are only taken while   *)
(* round_count is below this bound; rounds that change a set always are.   *)
MaxRounds == 3

-----------------------------------------------------------------------------
(* Strings *)

(* Python's None, the default of options.inoculator. *)
None == <<"<None>">>

(* str(x): the text of None is "None", a string is itself. *)
Str(x) == IF x = None THEN <<"N", "o", "n", "e">> ELSE x

(* The upper-case letters that occur in the model's strings. *)
LowerChar(c) ==
    CASE c = "A" -> "a"
      [] c = "B" -> "b"
      [] c = "N" -> "n"
      [] OTHER -> c

(* str.lower() *)
Lower(s) == [i \in DOMAIN s |-> LowerChar(s[i])]

(* set(<str>): the set of the string's characters, each a string. *)
SetOfStr(s) == {<<s[i]>> : i \in DOMAIN s}

(* The literal 'random' of lines 113, 122 and 131. *)
RandomLiteral == <<"r", "a", "n", "d", "o", "m">>

-----------------------------------------------------------------------------
(* Node identifiers and CSV files used as inputs *)

a == <<"a">>
b == <<"b">>
c == <<"c">>
d == <<"d">>
e == <<"e">>
ab == <<"a", "b">>
UpperA == <<"A">>
NoneText == <<"n", "o", "n", "e">>
Empty == << >>

PathABC == << <<a, b>>, <<b, c>> >>
PathABCDE == << <<a, b>>, <<b, c>>, <<c, d>>, <<d, e>> >>

(* The rows of the CSV files a run may be given. *)
CsvRows ==
    { PathABC,
      PathABCDE,
      << <<a, b>>, <<c, d>> >>,            \* two components
      << <<ab, c>> >>,                     \* a two-character identifier
      << <<ab, b>>, <<b, c>>, <<ab, b>> >>, \* its characters are nodes too
      << <<a, a>> >>,                      \* one node with a self-loop
      << <<UpperA, b>> >>,                 \* an upper-case identifier
      << <<NoneText, a>> >>,               \* a node called none
      << <<Empty, a>> >>,                  \* a node with the empty name
      << <<a, b, c>> >>,                   \* a row of three fields
      << <<a, b>>, <<c>> >>,               \* a row of one field
      << >> }                              \* no rows

Files ==
    {[readable |-> TRUE, rows |-> r] : r \in CsvRows}
        \cup {[readable |-> FALSE, rows |-> << >>]}

PatientZeroRequests == {a, e, ab, UpperA, NoneText, Empty, RandomLiteral}
InoculatorRequests == {None, a, e, ab, UpperA, Empty, RandomLiteral}

(* -p and -q, in tenths; -1 and 11 are outside [0, 1]. *)
Probabilities == {-1, 0, 5, 10, 11}

(* The values random() returns, in tenths: 0.0 <= random() < 1.0. *)
Draws == {0, 5, 9}

-----------------------------------------------------------------------------
(* networkx.Graph *)

(* Graph() *)
EmptyGraph == [nodes |-> {}, edges |-> {}]

(* Graph.add_edge(u, v): both nodes are added, the edge is unordered and   *)
(* adding it again changes nothing.                                        *)
AddEdge(g, u, v) == [nodes |-> g.nodes \cup {u, v},
                     edges |-> g.edges \cup {{u, v}}]

(* Line 19 if it iterated over net.nodes() instead of the neighbors. *)
NeighborsAll(g, n) == g.nodes

(* Graph.neighbors(n) for a node n of the graph. *)
Neighbors(g, n) == {m \in g.nodes : {n, m} \in g.edges}

(* for row in csv: graph.add_edge(row[0], row[1]).  A row with fewer than  *)
(* two fields raises IndexError and leaves the graph as built so far.      *)
RECURSIVE ReadRows(_, _, _)
ReadRows(g, rows, i) ==
    IF i > Len(rows) THEN [graph |-> g, ok |-> TRUE]
    ELSE IF Len(rows[i]) < 2 THEN [graph |-> g, ok |-> FALSE]
    ELSE ReadRows(AddEdge(g, rows[i][1], rows[i][2]), rows, i + 1)

-----------------------------------------------------------------------------
(* The test of line 21 with the comparison inverted. *)
BernoulliInverted(draw, probability) == draw >= probability

(* random() <= probability *)
Bernoulli(draw, probability) == draw <= probability

(* The increment of line 23 written as an assignment of 1. *)
IncrementStuck(n) == 1

(* round_count += 1 *)
Increment(n) == n + 1

(* The resolution loop of lines 59-61 left out. *)
ResolveNothing(inf, inoc) == inf

(* The resolution loop of lines 59-61: every inoculated node leaves        *)
(* infected.                                                               *)
Resolve(inf, inoc) == inf \ inoc

(* Line 54 if infected nodes were passed over. *)
InoculationTargetsHealthy(nbrs, inf, inoc) == (nbrs \ inoc) \ inf

(* Line 54: the nodes the inoculation step may inoculate. *)
InoculationTargets(nbrs, inf, inoc) == nbrs \ inoc

(* Line 49: the nodes the infection step of simulate_inoculation may       *)
(* infect.                                                                 *)
InfectionTargets(nbrs, inf, inoc) == (nbrs \ inf) \ inoc

(* Lines 132-133 if patient zero were left in node_list. *)
InoculatorCandidatesAll(g, pz) == g.nodes

(* Lines 132-133: node_list.remove(patient_zero), then choice(node_list)   *)
(* draws from what is left.                                                *)
InoculatorCandidates(g, pz) == g.nodes \ {pz}

(* Line 25 if the line were printed in every round. *)
PrintsAlways(infection_delta) == TRUE

(* Line 25: simulate prints the round only if infected has grown. *)
PrintsSimple(infection_delta) == infection_delta > 0

(* Line 65: simulate_inoculation prints the round unless both deltas are   *)
(* '0'.                                                                    *)
PrintsInoculation(infection_delta, inoculation_delta) ==
    ~(infection_delta = 0 /\ inoculation_delta = 0)

(* What the last completed round has printed; nothing before the first     *)
(* round and after a round that printed no line.                           *)
NoReport == [printed |-> FALSE, round |-> 0, infection_delta |-> 0,
             new_infections |-> 0, inoculation_delta |-> 0,
             total_infected |-> 0, total_inoculated |-> 0]

(* Lines 26-28: 'Round: r, infection delta: d, total infected: t'. *)
ReportSimple(r, before, after) ==
    IF PrintsSimple(Cardinality(after) - Cardinality(before))
    THEN [printed |-> TRUE, round |-> r,
          infection_delta |-> Cardinality(after) - Cardinality(before),
          new_infections |-> 0, inoculation_delta |-> 0,
          total_infected |-> Cardinality(after), total_inoculated |-> 0]
    ELSE NoReport

(* Lines 63-71: 'Round: r, infection delta: d (n new infections),          *)
(* inoculation delta: i, total infected: t, total inoculated: u'.          *)
ReportInoculation(r, new, inf, inf2, inoc, inoc2) ==
    IF PrintsInoculation(Cardinality(inf2) - Cardinality(inf),
                         Cardinality(inoc2) - Cardinality(inoc))
    THEN [printed |-> TRUE, round |-> r,
          infection_delta |-> Cardinality(inf2) - Cardinality(inf),
          new_infections |-> Cardinality(new),
          inoculation_delta |-> Cardinality(inoc2) - Cardinality(inoc),
          total_infected |-> Cardinality(inf2),
          total_inoculated |-> Cardinality(inoc2)]
    ELSE NoReport

-----------------------------------------------------------------------------
Init ==
    /\ options \in [patient_zero : PatientZeroRequests,
                    inoculator : InoculatorRequests,
                    infection_probability : Probabilities,
                    inoculation_probability : Probabilities]
    /\ infile \in Files
    /\ graph = EmptyGraph
    /\ patient_zero = None
    /\ inoculator = None
    /\ infected = {}
    /\ inoculated = {}
    /\ round_count = 0
    /\ pc = "start"
    /\ error = "none"
    /\ report = NoReport

(* main() ends without a simulation: parser.error (pc "exit") or an        *)
(* uncaught exception (pc "crashed").                                      *)
Abort(how, what, g, pz, ino) ==
    /\ pc' = how
    /\ error' = what
    /\ graph' = g
    /\ patient_zero' = pz
    /\ inoculator' = ino
    /\ UNCHANGED <<infected, inoculated, round_count, report>>

(* simulate(graph, pz, p): lines 13-16. *)
EnterSimulate(g, pz, ino) ==
    /\ pc' = "simulate"
    /\ error' = "none"
    /\ graph' = g
    /\ patient_zero' = pz
    /\ inoculator' = ino
    /\ infected' = SetOfStr(pz)
    /\ inoculated' = {}
    /\ round_count' = 0
    /\ report' = NoReport

(* simulate_inoculation(graph, pz, p, ino, q): lines 38-42. *)
EnterSimulateInoculation(g, pz, ino) ==
    /\ pc' = "simulate_inoculation"
    /\ error' = "none"
    /\ graph' = g
    /\ patient_zero' = pz
    /\ inoculator' = ino
    /\ infected' = SetOfStr(pz)
    /\ inoculated' = SetOfStr(ino)
    /\ round_count' = 0
    /\ report' = NoReport

(* main(), lines 102-145, up to and including the entry of the simulation. *)
Main ==
    /\ pc = "start"
    /\ UNCHANGED <<options, infile>>
    /\ LET pz0 == Lower(Str(options.patient_zero))
           ino0 == Lower(Str(options.inoculator))
           read == ReadRows(EmptyGraph, infile.rows, 1)
           g == read.graph
       IN
       IF \/ options.inoculation_probability > 10
          \/ options.inoculation_probability < 0
          \/ options.infection_probability > 10
          \/ options.infection_probability < 0
       THEN Abort("exit", "probabilities", EmptyGraph, None, None)
       ELSE IF pz0 = ino0 /\ ino0 # RandomLiteral
       THEN Abort("exit", "same node", EmptyGraph, pz0, ino0)
       ELSE IF ~infile.readable
       THEN Abort("exit", "IOError", EmptyGraph, pz0, ino0)
       ELSE IF ~read.ok
       THEN Abort("crashed", "IndexError: row", g, pz0, ino0)
       ELSE IF pz0 = RandomLiteral /\ g.nodes = {}
       THEN Abort("crashed", "IndexError: choice(node_list)", g, pz0, ino0)
       ELSE \E pz \in (IF pz0 = RandomLiteral THEN g.nodes ELSE {pz0}) :
           IF pz \notin g.nodes
           THEN Abort("exit", "patient zero", g, pz, ino0)
           ELSE IF options.inoculator = None
           THEN EnterSimulate(g, pz, ino0)
           ELSE IF ino0 = RandomLiteral /\ InoculatorCandidates(g, pz) = {}
           THEN Abort("crashed", "IndexError: choice(node_list) at line 133",
                      g, pz, ino0)
           ELSE \E ino \in (IF ino0 = RandomLiteral
                            THEN InoculatorCandidates(g, pz) ELSE {ino0}) :
               IF ino \in g.nodes
               THEN EnterSimulateInoculation(g, pz, ino)
               ELSE Abort("exit", "inoculator", g, pz, ino)

(* An exception inside a round: the sets are as the round left them. *)
RoundCrash(what, inf) ==
    /\ pc' = "crashed"
    /\ error' = what
    /\ infected' = inf
    /\ UNCHANGED <<options, infile, graph, patient_zero, inoculator,
                   inoculated, round_count, report>>

(* simulate(): one pass of the loop of lines 17-28. *)
SimulateRound ==
    /\ pc = "simulate"
    /\ Cardinality(infected) < Cardinality(graph.nodes)
    /\ IF infected = {}
       THEN RoundCrash("IndexError: choice(infected)", infected)
       ELSE \E u \in infected :
           IF u \notin graph.nodes
           THEN RoundCrash("NetworkXError: neighbors(infected)", infected)
           ELSE \E draw \in [Neighbors(graph, u) \ infected -> Draws] :
               LET new == {v \in DOMAIN draw :
                             Bernoulli(draw[v], options.infection_probability)}
               IN /\ new = {} => round_count < MaxRounds
                  /\ infected' = infected \cup new
                  /\ round_count' = Increment(round_count)
                  /\ report' = ReportSimple(round_count', infected,
                                            infected')
                  /\ UNCHANGED <<options, infile, graph, patient_zero,
                                 inoculator, inoculated, pc, error>>

(* simulate(): the loop condition of line 17 fails, line 29 returns. *)
SimulateReturn ==
    /\ pc = "simulate"
    /\ ~(Cardinality(infected) < Cardinality(graph.nodes))
    /\ pc' = "done"
    /\ UNCHANGED <<options, infile, graph, patient_zero, inoculator,
                   infected, inoculated, round_count, error, report>>

(* simulate_inoculation(): lines 53-71 of a pass of the loop, where inf1   *)
(* is infected as the infection step of lines 47-52 has left it.           *)
InoculationStep(inf1) ==
    IF inoculated = {}
    THEN RoundCrash("IndexError: choice(inoculated)", inf1)
    ELSE \E w \in inoculated :
        IF w \notin graph.nodes
        THEN RoundCrash("NetworkXError: neighbors(inoculated)", inf1)
        ELSE \E draw \in [InoculationTargets(Neighbors(graph, w),
                                             inf1, inoculated) -> Draws] :
            LET cured == {v \in DOMAIN draw :
                            Bernoulli(draw[v],
                                      options.inoculation_probability)}
                inoc2 == inoculated \cup cured
                inf2 == Resolve(inf1 \ cured, inoc2)
            IN /\ (inf2 = infected /\ inoc2 = inoculated)
                      => round_count < MaxRounds
               /\ infected' = inf2
               /\ inoculated' = inoc2
               /\ round_count' = Increment(round_count)
               /\ report' = ReportInoculation(round_count', inf1 \ infected,
                                              infected, inf2,
                                              inoculated, inoc2)
               /\ UNCHANGED <<options, infile, graph, patient_zero,
                              inoculator, pc, error>>

InoculationRound ==
    /\ pc = "simulate_inoculation"
    /\ Cardinality(infected) > 0
    /\ \E u \in infected :
           IF u \notin graph.nodes
           THEN RoundCrash("NetworkXError: neighbors(infected)", infected)
           ELSE \E draw \in [InfectionTargets(Neighbors(graph, u),
                                              infected, inoculated)
                                 -> Draws] :
               LET new == {v \in DOMAIN draw :
                             Bernoulli(draw[v], options.infection_probability)}
               IN InoculationStep(infected \cup new)

(* simulate_inoculation(): the loop condition of line 43 fails, line 72    *)
(* returns.                                                                *)
InoculationReturn ==
    /\ pc = "simulate_inoculation"
    /\ ~(Cardinality(infected) > 0)
    /\ pc' = "done"
    /\ UNCHANGED <<options, infile, graph, patient_zero, inoculator,
                   infected, inoculated, round_count, error, report>>

Next ==
    \/ Main
    \/ SimulateRound
    \/ SimulateReturn
    \/ InoculationRound
    \/ InoculationReturn

Spec == Init /\ [][Next]_vars

(* The program keeps running, and the uniform draw of line 53 does not     *)
(* avoid for ever the inoculated nodes that have a neighbor to inoculate.  *)
InoculationProgress == InoculationRound /\ inoculated' # inoculated

FairSpec == Spec /\ WF_vars(Next) /\ WF_vars(InoculationProgress)

-----------------------------------------------------------------------------
(* Properties *)

Simple == options.inoculator = None
Competitive == options.inoculator # None
InSimulation == pc \in {"simulate", "simulate_inoculation", "done"}
RoundErrors == {"IndexError: choice(infected)",
                "IndexError: choice(inoculated)",
                "NetworkXError: neighbors(infected)",
                "NetworkXError: neighbors(inoculated)"}

(* The connected component of n in g. *)
RECURSIVE Reach(_, _)
Reach(g, S) ==
    LET T == S \cup {m \in g.nodes : \E n \in S : {n, m} \in g.edges}
    IN IF T = S THEN S ELSE Reach(g, T)
Component(g, n) == Reach(g, {n})

(* C1: in simulate_inoculation, at the end of every round (after the       *)
(* resolution loop and the increment of round_count), infected and         *)
(* inoculated have no node in common.                                      *)
C1_DisjointAfterResolution ==
    (Competitive /\ InSimulation /\ round_count > 0)
        => infected \cap inoculated = {}

(* A first round has ended that began with the same node in both sets and  *)
(* resolution has taken it out of infected.                                *)
C1_Witness ==
    /\ Competitive
    /\ pc = "simulate_inoculation"
    /\ round_count = 1
    /\ patient_zero = inoculator
    /\ patient_zero \in inoculated
    /\ infected = {}

ScenarioB ==
    /\ infile = [readable |-> TRUE, rows |-> PathABCDE]
    /\ options = [patient_zero |-> a, inoculator |-> e,
                  infection_probability |-> 10,
                  inoculation_probability |-> 10]

(* C2: on the path a-b-c-d-e with patient zero a, inoculator e and both    *)
(* probabilities 1.0, every fair run reaches the end of                    *)
(* simulate_inoculation with infected empty; none runs for ever, aborts or *)
(* stops elsewhere.                                                        *)
C2_ScenarioBEradicated == ScenarioB ~> (pc = "done" /\ infected = {})

(* Scenario B has ended, after the four rounds at least that inoculation   *)
(* needs to cross the path.                                                *)
C2_Witness ==
    /\ ScenarioB
    /\ pc = "done"
    /\ infected = {}
    /\ inoculated = {a, b, c, d, e}
    /\ round_count >= 4

(* C3: with infection probability 1.0 and no inoculation, simulate ends    *)
(* with infected equal to the connected component of patient zero (stated  *)
(* here for the runs that end).                                            *)
C3_FullSpread ==
    (Simple /\ options.infection_probability = 10 /\ pc = "done")
        => infected = Component(graph, patient_zero)

(* C4: with infection probability 0.0, infected never holds a node other   *)
(* than patient zero, whatever random() returns, 0.0 included (stated here *)
(* for the runs whose infected set starts as {patient zero}).              *)
C4_NoSpread ==
    (options.infection_probability = 0
        /\ SetOfStr(patient_zero) = {patient_zero}
        /\ InSimulation)
        => infected \subseteq {patient_zero}

ScenarioA ==
    /\ infile = [readable |-> TRUE, rows |-> PathABC]
    /\ options = [patient_zero |-> a, inoculator |-> None,
                  infection_probability |-> 10,
                  inoculation_probability |-> 5]

(* C5 as claimed: on the path a-b-c with patient zero a and infection      *)
(* probability 1.0, infected is {a,b} after round 1 and {a,b,c} after      *)
(* round 2, where simulate stops with round_count 2, whichever spreader is *)
(* drawn.                                                                  *)
C5_ScenarioAOriginal ==
    ScenarioA =>
        /\ pc \in {"start", "simulate", "done"}
        /\ round_count = 1 => infected = {a, b}
        /\ round_count = 2 => infected = {a, b, c}
        /\ round_count <= 2
        /\ pc = "done" => round_count = 2

(* C5 as amended: infected is {a,b} after round 1; a later round adds c    *)
(* when b is the spreader and nothing when a is; simulate stops only with  *)
(* infected = {a,b,c}, after two rounds or more.                           *)
C5_ScenarioAAmended ==
    ScenarioA =>
        /\ pc \in {"start", "simulate", "done"}
        /\ (pc = "simulate" /\ round_count = 0) => infected = {a}
        /\ round_count = 1 => infected = {a, b}
        /\ round_count >= 2 => infected \in {{a, b}, {a, b, c}}
        /\ pc = "done" => (infected = {a, b, c} /\ round_count >= 2)

(* Scenario A has ended after a round in which a was drawn again. *)
C5_Witness ==
    /\ ScenarioA
    /\ pc = "done"
    /\ infected = {a, b, c}
    /\ round_count = 3

(* C6: in every state of a simulation, the elements of infected and of     *)
(* inoculated are nodes of the graph.                                      *)
C6_SetsWithinGraph ==
    (InSimulation \/ (pc = "crashed" /\ error \in RoundErrors))
        => (infected \subseteq graph.nodes /\ inoculated \subseteq graph.nodes)

(* A pass of the loop body of simulate or simulate_inoculation that        *)
(* reaches the end of the body.                                            *)
RoundStep ==
    /\ pc \in {"simulate", "simulate_inoculation"}
    /\ pc' = pc

(* C7: round_count is 0 when a simulation is entered, is never negative,   *)
(* grows by exactly 1 in every pass of a loop body (also when no set       *)
(* changes) and is changed by nothing else.                                *)
C7_RoundCounter ==
    /\ [](round_count >= 0)
    /\ [][(pc = "start" /\ pc' \in {"simulate", "simulate_inoculation"})
              => round_count' = 0]_vars
    /\ [][RoundStep => round_count' = round_count + 1]_vars
    /\ [][~RoundStep => round_count' = round_count]_vars

(* Two rounds of simulate_inoculation have passed and neither set has      *)
(* changed.                                                                *)
C7_Witness ==
    /\ pc = "simulate_inoculation"
    /\ round_count = 2
    /\ infected = {patient_zero}
    /\ inoculated = {inoculator}

SameExplicitRequest ==
    /\ options.inoculator # None
    /\ options.patient_zero = options.inoculator
    /\ options.patient_zero # RandomLiteral

(* C8: the same explicit node requested for both roles is rejected before  *)
(* any round; requests that differ, or a run without inoculator, are never *)
(* rejected by that check.                                                 *)
C8_SameNodeCheck ==
    pc # "start" =>
        /\ SameExplicitRequest => (pc = "exit" /\ round_count = 0)
        /\ ~SameExplicitRequest => error # "same node"

(* C9: a requested patient zero, or a requested inoculator when            *)
(* inoculation is enabled, that is not a node of the loaded graph keeps    *)
(* the run out of simulate and simulate_inoculation.                       *)
C9_UnknownNodeAborts ==
    (\/ /\ options.patient_zero # RandomLiteral
        /\ options.patient_zero \notin
               ReadRows(EmptyGraph, infile.rows, 1).graph.nodes
     \/ /\ options.inoculator \notin {None, RandomLiteral}
        /\ options.inoculator \notin
               ReadRows(EmptyGraph, infile.rows, 1).graph.nodes)
        => (~InSimulation /\ infected = {} /\ inoculated = {})

(* C10: once a simulation has been entered no round fails: every draw of a *)
(* spreader is from a non-empty set and every neighbor lookup is on a node *)
(* of the graph.                                                           *)
C10_NoFailureInRounds == error \notin RoundErrors

(* Patient zero has been resolved and found in the graph: main() has got   *)
(* past line 127.                                                          *)
PatientZeroValidated ==
    /\ pc # "start"
    /\ error \notin {"probabilities", "same node", "IOError",
                     "IndexError: row", "IndexError: choice(node_list)",
                     "patient zero"}

(* C11 as claimed: an inoculator requested as 'random' always resolves,    *)
(* without failure, to a graph node other than patient zero, on every      *)
(* graph that passed the validation of patient zero, a single node         *)
(* included.                                                               *)
C11_RandomInoculatorOriginal ==
    (options.inoculator = RandomLiteral /\ PatientZeroValidated)
        => /\ error # "IndexError: choice(node_list) at line 133"
           /\ inoculator \in graph.nodes \ {patient_zero}

(* C11 as amended: the nodes a 'random' inoculator can resolve to are      *)
(* exactly the graph's nodes other than patient zero; on a graph of two    *)
(* nodes or more resolution does not fail, on a graph of one node it       *)
(* raises IndexError before any simulation is entered.                     *)
C11_RandomInoculatorAmended ==
    /\ (options.inoculator = RandomLiteral /\ PatientZeroValidated)
          => IF Cardinality(graph.nodes) >= 2
             THEN /\ error # "IndexError: choice(node_list) at line 133"
                  /\ inoculator \in graph.nodes \ {patient_zero}
             ELSE /\ pc = "crashed"
                  /\ error = "IndexError: choice(node_list) at line 133"
                  /\ infected = {} /\ inoculated = {}
    /\ (/\ pc = "start"
        /\ options.inoculator = RandomLiteral
        /\ options.infection_probability \in 0..10
        /\ options.inoculation_probability \in 0..10
        /\ infile.readable
        /\ ReadRows(EmptyGraph, infile.rows, 1).ok
        /\ Lower(options.patient_zero)
               \in ReadRows(EmptyGraph, infile.rows, 1).graph.nodes)
          => \A n \in ReadRows(EmptyGraph, infile.rows, 1).graph.nodes
                         \ {Lower(options.patient_zero)} :
                 ENABLED (Main /\ inoculator' = n
                               /\ pc' = "simulate_inoculation")

(* A 'random' inoculator has been resolved on a graph of three nodes or    *)
(* more and simulate_inoculation has been entered.                         *)
C11_Witness ==
    /\ options.inoculator = RandomLiteral
    /\ pc = "simulate_inoculation"
    /\ round_count = 0
    /\ Cardinality(graph.nodes) >= 3
    /\ inoculator \in graph.nodes \ {patient_zero}

(* The line a round has printed carries the round's number and the counts  *)
(* as they are after the round.                                            *)
ReportIsCurrent ==
    /\ report'.round = round_count'
    /\ report'.total_infected = Cardinality(infected')
    /\ Competitive => report'.total_inoculated = Cardinality(inoculated')

(* C12 as claimed: after every round, also one that changed neither set,   *)
(* one progress line with the round's number and the current counts is     *)
(* printed.                                                                *)
C12_ProgressEventOriginal ==
    [][RoundStep => (report'.printed /\ ReportIsCurrent)]_vars

(* C12 as amended: a round prints its one progress line, with the round's  *)
(* number and the current counts, exactly when it has changed the number   *)
(* of infected or of inoculated nodes; other rounds print nothing.         *)
C12_ProgressEventAmended ==
    [][RoundStep =>
          /\ report'.printed <=>
                 \/ Cardinality(infected') # Cardinality(infected)
                 \/ Cardinality(inoculated') # Cardinality(inoculated)
          /\ report'.printed => ReportIsCurrent]_vars

(* The first round of simulate has infected a node and printed, the second *)
(* has changed nothing and printed nothing.                                *)
C12_Witness ==
    /\ Simple
    /\ pc = "simulate"
    /\ round_count = 2
    /\ patient_zero \in infected
    /\ Cardinality(infected) = 2
    /\ ~report.printed

(* No round of simulate can add a node any more: every infected node is a  *)
(* node of the graph whose neighbors are all infected, and the loop        *)
(* condition of line 17 still holds.                                       *)
SimulateExhausted ==
    /\ pc = "simulate"
    /\ Cardinality(infected) < Cardinality(graph.nodes)
    /\ infected # {}
    /\ \A u \in infected :
           u \in graph.nodes /\ Neighbors(graph, u) \subseteq infected

(* C13: no run loops for ever: the round loop ends in the terminal state   *)
(* of its mode or, once a maximum number of rounds is exceeded, with a     *)
(* StagnationError.  Stated for simulate: a run that has passed the round  *)
(* bound and whose rounds can change nothing any more is not left in the   *)
(* loop.                                                                   *)
C13_NoIndefiniteLoop == ~(SimulateExhausted /\ round_count >= MaxRounds)

(* Some row of the CSV file has not exactly two fields. *)
MalformedRow == \E i \in DOMAIN infile.rows : Len(infile.rows[i]) # 2

(* C14: when some row has not exactly two fields (one, or three or more),  *)
(* the run fails before any round; a row of more than two fields is never  *)
(* taken as an edge.                                                       *)
C14_MalformedRowRejected ==
    (pc # "start" /\ infile.readable /\ MalformedRow)
        => /\ pc \in {"exit", "crashed"}
           /\ infected = {} /\ inoculated = {} /\ round_count = 0

(* The nodes of the graph that the rows of the file build. *)
LoadedNodes == ReadRows(EmptyGraph, infile.rows, 1).graph.nodes

(* The run has nothing to reject but the patient zero request: the         *)
(* probabilities are in [0, 1], the file is readable and well-formed and   *)
(* no inoculator is requested.                                             *)
OnlyPatientZeroToCheck ==
    /\ options.infection_probability \in 0..10
    /\ options.inoculation_probability \in 0..10
    /\ infile.readable
    /\ ~MalformedRow
    /\ options.inoculator = None

(* C15: identifiers are compared as they are written: an explicit patient  *)
(* zero request is accepted exactly when that string is a node of the      *)
(* graph, and the run then starts from that node; so are an upper-case     *)
(* identifier and, without inoculator, the identifier none.                *)
C15_CaseSensitiveRequest ==
    (/\ pc # "start"
     /\ OnlyPatientZeroToCheck
     /\ options.patient_zero # RandomLiteral)
        => IF options.patient_zero \in LoadedNodes
           THEN pc # "exit" /\ patient_zero = options.patient_zero
           ELSE pc = "exit" /\ error = "patient zero"

(* C16: at round 0 infected is exactly {patient zero}, and inoculated is   *)
(* exactly {inoculator} with inoculation and empty without, for            *)
(* identifiers of any length.                                              *)
C16_InitialSets ==
    (pc \in {"simulate", "simulate_inoculation"} /\ round_count = 0)
        => /\ infected = {patient_zero}
           /\ Competitive => inoculated = {inoculator}
           /\ Simple => inoculated = {}

(* C17: simulate returns only when every node of the graph is infected,    *)
(* and runs no round once every node is infected.                          *)
C17_StopsWhenAllInfected ==
    /\ (Simple /\ pc = "done") => graph.nodes \subseteq infected
    /\ (pc = "simulate" /\ graph.nodes \subseteq infected)
           => ~ENABLED SimulateRound

(* C18: the inoculation step of a round may take an infected neighbor of   *)
(* the drawn inoculated node, and every node inoculated in a round, one    *)
(* that the same round has just infected included, is in inoculated and    *)
(* not in infected when the round ends.                                    *)
C18_InoculationWins ==
    /\ [](\A w \in inoculated \cap graph.nodes :
            \A v \in (Neighbors(graph, w) \cap infected) \ inoculated :
                (/\ pc = "simulate_inoculation"
                 /\ infected \subseteq graph.nodes)
                    => ENABLED (/\ InoculationRound
                                /\ pc' = "simulate_inoculation"
                                /\ v \in inoculated'
                                /\ v \notin infected'))
    /\ [][(pc = "simulate_inoculation" /\ pc' = pc)
              => /\ inoculated \subseteq inoculated'
                 /\ (inoculated' \ inoculated) \cap infected' = {}
                 /\ (infected' \ infected) \cap inoculated' = {}]_vars

(* The first round has infected a neighbor of patient zero and inoculated  *)
(* it at once: one new infection is counted, and the node is inoculated    *)
(* and not infected.                                                       *)
C18_Witness ==
    /\ pc = "simulate_inoculation"
    /\ round_count = 1
    /\ report.printed
    /\ report.new_infections = 1
    /\ report.inoculation_delta = 1
    /\ infected = {patient_zero}
    /\ inoculated \cap infected = {}
    /\ \E v \in inoculated \ {inoculator} :
           {patient_zero, v} \in graph.edges

(* C19: a node that is inoculated at the end of a round stays inoculated   *)
(* and is not infected at the end of any later round; so when inoculated   *)
(* covers every node of the graph at the end of a round, infected is       *)
(* empty.                                                                  *)
C19_InoculatedForGood ==
    /\ [][(Competitive /\ InSimulation) => inoculated \subseteq inoculated']_vars
    /\ []((Competitive /\ InSimulation /\ round_count > 0)
              => /\ inoculated \cap infected = {}
                 /\ graph.nodes \subseteq inoculated => infected = {})

(* C20: in simulate infected never loses a node, and the nodes a round     *)
(* adds are all neighbors of one node that was infected when the round     *)
(* began.                                                                  *)
C20_OneSpreaderPerRound ==
    [][pc = "simulate" =>
          /\ infected \subseteq infected'
          /\ (infected' # infected) =>
                 \E u \in infected :
                     \A v \in infected' \ infected : {u, v} \in graph.edges]_vars

(* One round of simulate has infected both neighbors of patient zero. *)
C20_Witness ==
    /\ Simple
    /\ InSimulation
    /\ round_count = 1
    /\ Cardinality(infected) = 3
    /\ \A v \in infected \ {patient_zero} : {patient_zero, v} \in graph.edges

=============================================================================
